---- MODULE Spec2Model ----
(***************************************************************************)
(* Model of ir_pell_accepts: the metric functions of headcount_calcs.py    *)
(* and the extract builders of tables_for_carol.py, applied to the three   *)
(* string-typed tables io_utils.infer_and_read_file produces.              *)
(*                                                                         *)
(* A string is a sequence of tokens (digit characters, " ", and the fixed  *)
(* literals of the reporting convention); + is \o and s[0:4] is            *)
(* SubSeq(s, 1, 4).  A blank cell is read as NaN, written <<>> here.       *)
(* A DataFrame is [columns, rows] where rows maps the index labels (a      *)
(* RangeIndex 1..n after reading) to one cell per column; a Series maps    *)
(* index labels to values.  Boolean indexing keeps the labels it selects.  *)
(***************************************************************************)
EXTENDS Integers, Sequences, FiniteSets, TLC

VARIABLES dfp, dfr, dfe, last, fs, run

vars == <<dfp, dfr, dfe, last, fs, run>>

-----------------------------------------------------------------------------
(* Bounds of the input space *)

MaxRows == 2

(* calls of init_repo.main in one history *)
MaxRuns == 3

-----------------------------------------------------------------------------
(* Strings and cells *)

NaN == <<>>

Digits == <<"0", "1", "2", "3", "4", "5", "6", "7", "8", "9">>

IsDigit(c) == \E i \in 1..10 : Digits[i] = c

DigitVal(c) == (CHOOSE i \in 1..10 : Digits[i] = c) - 1

RECURSIVE int(_)
int(s) == IF s = <<>> THEN 0
          ELSE 10 * int(SubSeq(s, 1, Len(s) - 1)) + DigitVal(s[Len(s)])

RECURSIVE zfill(_, _)
zfill(n, width) == IF width = 0 THEN <<>>
                   ELSE zfill(n \div 10, width - 1) \o <<Digits[(n % 10) + 1]>>

isna(c) == c = NaN

(* pandas: Series == scalar is False on NaN, Series != scalar is True on NaN *)
Eq(c, s) == ~isna(c) /\ c = s

Ne(c, s) == ~Eq(c, s)

-----------------------------------------------------------------------------
(* DataFrames and Series *)

Index(df) == DOMAIN df.rows

(* df[column] *)
Column(df, column) == [i \in Index(df) |-> df.rows[i][column]]

(* df[mask], df.loc[mask]: the rows whose mask is True, labels kept *)
Select(df, mask) ==
    [columns |-> df.columns,
     rows    |-> [i \in {j \in Index(df) : mask[j]} |-> df.rows[i]]]

(* Series.dropna() *)
dropna(s) == [i \in {j \in DOMAIN s : ~isna(s[j])} |-> s[i]]

(* set(series) *)
set(s) == {s[i] : i \in DOMAIN s}

(* Series.nunique() *)
nunique(s) == Cardinality(set(dropna(s)))

(* sum(mask) of a boolean Series *)
sum(mask) == Cardinality({i \in DOMAIN mask : mask[i]})

(* cond1 & cond2: aligned on the union of the labels; a label one side    *)
(* lacks is NaN there and NaN is filled with False                        *)
And(cond1, cond2) ==
    [i \in (DOMAIN cond1) \cup (DOMAIN cond2) |->
        /\ i \in DOMAIN cond1
        /\ i \in DOMAIN cond2
        /\ cond1[i]
        /\ cond2[i]]

(* pd.to_numeric(series, errors='coerce') <= n: a non-numeric string is   *)
(* coerced to NaN and NaN <= n is False                                   *)
IsNumeric(c) == c # <<>> /\ \A k \in 1..Len(c) : IsDigit(c[k])

(* the same comparison with an unparseable string read as 0 *)
to_numeric_le_zero(s, n) ==
    [i \in DOMAIN s |-> (IF IsNumeric(s[i]) THEN int(s[i]) ELSE 0) <= n]

to_numeric_le(s, n) == [i \in DOMAIN s |-> IsNumeric(s[i]) /\ int(s[i]) <= n]

-----------------------------------------------------------------------------
(* Outcomes of a call *)

Ok(v) == [kind |-> "ok", value |-> v]

Raise(e, what, done) == [kind |-> e, what |-> what, done |-> done]

(* round(n / d, 3) in thousandths; int / int with d = 0 raises *)
round3(n, d) ==
    LET q == (1000 * n) \div d
        r == (1000 * n) % d
    IN  IF 2 * r < d THEN q
        ELSE IF 2 * r > d THEN q + 1
        ELSE IF q % 2 = 0 THEN q ELSE q + 1

Rate(n, d) == IF d = 0 THEN Raise("ZeroDivisionError", "division by zero", {"n", "n_tot"})
              ELSE Ok(round3(n, d))

-----------------------------------------------------------------------------
(* helper.py: term and cohort arithmetic (fall terms, suffix "80") *)

calc_academic_year_from_term(term, two_digit) ==
    IF two_digit THEN SubSeq(term, 3, 4) ELSE SubSeq(term, 1, 4)

construct_cohort(term) == SubSeq(term, 1, 4) \o <<" ">> \o <<"Fall, Full-Time">>

adjust_term(term, years) ==
    zfill(int(SubSeq(term, 1, 4)) + years, 4) \o SubSeq(term, 5, 6)

-----------------------------------------------------------------------------
(* checks.py: column-presence validation; the result is the set of        *)
(* required columns the table lacks (empty: the check passes silently)    *)

validate_pell_columns(df, id_column) ==
    {id_column, "AID_YEAR"} \ df.columns

validate_cohort_columns(df, id_column) ==
    {id_column, "Cohort Name", "Years to Graduation", "Academic Period 2nd Fall"}
        \ df.columns

validate_enrollment_columns(df, id_column) ==
    {id_column, "Academic Period", "Time Status", "Student Level", "Degree"}
        \ df.columns

ValueError(missing) == Raise("ValueError", missing, {})

KeyError(column, done) == Raise("KeyError", column, done)

-----------------------------------------------------------------------------
(* headcount_calcs.py *)

(* grs_cohort_pell without the cohort filter on the retention table *)
grs_cohort_pell_any_cohort(p, r, id_column, term, aid_year_column, cohort_column) ==
    LET aid_year == calc_academic_year_from_term(term, TRUE)
        pids == dropna(Column(Select(p,
                    [i \in Index(p) |-> Eq(p.rows[i][aid_year_column], aid_year)]),
                    id_column))
        rids == dropna(Column(r, id_column))
    IN  IF validate_pell_columns(p, id_column) # {}
            THEN ValueError(validate_pell_columns(p, id_column))
        ELSE IF validate_cohort_columns(r, id_column) # {}
            THEN ValueError(validate_cohort_columns(r, id_column))
        ELSE IF aid_year_column \notin p.columns
            THEN KeyError(aid_year_column, {})
        ELSE IF cohort_column \notin r.columns
            THEN KeyError(cohort_column, {"pids"})
        ELSE Ok(Cardinality(set(pids) \cap set(rids)))

grs_cohort_pell(p, r, id_column, term, aid_year_column, cohort_column) ==
    LET aid_year == calc_academic_year_from_term(term, TRUE)
        cohort   == construct_cohort(term)
        pids == dropna(Column(Select(p,
                    [i \in Index(p) |-> Eq(p.rows[i][aid_year_column], aid_year)]),
                    id_column))
        rids == dropna(Column(Select(r,
                    [i \in Index(r) |-> Eq(r.rows[i][cohort_column], cohort)]),
                    id_column))
    IN  IF validate_pell_columns(p, id_column) # {}
            THEN ValueError(validate_pell_columns(p, id_column))
        ELSE IF validate_cohort_columns(r, id_column) # {}
            THEN ValueError(validate_cohort_columns(r, id_column))
        ELSE IF aid_year_column \notin p.columns
            THEN KeyError(aid_year_column, {})
        ELSE IF cohort_column \notin r.columns
            THEN KeyError(cohort_column, {"pids"})
        ELSE Ok(Cardinality(set(pids) \cap set(rids)))

grs_cohort(r, id_column, term, cohort_column) ==
    LET cohort == construct_cohort(term)
    IN  IF validate_cohort_columns(r, id_column) # {}
            THEN ValueError(validate_cohort_columns(r, id_column))
        ELSE IF cohort_column \notin r.columns
            THEN KeyError(cohort_column, {})
        ELSE Ok(sum([i \in Index(r) |-> Eq(r.rows[i][cohort_column], cohort)]))

(* the filter dropping the rows from the frame passed in *)
filter_enrollment_table_inplace(e, term) ==
    LET needed == {"Academic Period", "Time Status", "Student Level", "Degree"}
        enrollment_conditions ==
            [i \in Index(e) |->
                /\ Eq(e.rows[i]["Academic Period"], term)
                /\ Eq(e.rows[i]["Time Status"], <<"FT">>)
                /\ Eq(e.rows[i]["Student Level"], <<"UG">>)
                /\ Ne(e.rows[i]["Degree"], <<"Non Degree">>)]
    IN  IF needed \ e.columns # {}
            THEN [out |-> KeyError("Academic Period", {}), dfe |-> e]
        ELSE [out |-> Ok(Select(e, enrollment_conditions)),
              dfe |-> Select(e, enrollment_conditions)]

(* the filter without the degree condition *)
filter_enrollment_table_any_degree(e, term) ==
    LET needed == {"Academic Period", "Time Status", "Student Level", "Degree"}
        enrollment_conditions ==
            [i \in Index(e) |->
                /\ Eq(e.rows[i]["Academic Period"], term)
                /\ Eq(e.rows[i]["Time Status"], <<"FT">>)
                /\ Eq(e.rows[i]["Student Level"], <<"UG">>)]
    IN  IF needed \ e.columns # {}
            THEN [out |-> KeyError("Academic Period", {}), dfe |-> e]
        ELSE [out |-> Ok(Select(e, enrollment_conditions)), dfe |-> e]

(* dfe[enrollment_conditions]: a new frame; the frame passed in is left   *)
(* as it was                                                              *)
filter_enrollment_table(e, term) ==
    LET needed == {"Academic Period", "Time Status", "Student Level", "Degree"}
        enrollment_conditions ==
            [i \in Index(e) |->
                /\ Eq(e.rows[i]["Academic Period"], term)
                /\ Eq(e.rows[i]["Time Status"], <<"FT">>)
                /\ Eq(e.rows[i]["Student Level"], <<"UG">>)
                /\ Ne(e.rows[i]["Degree"], <<"Non Degree">>)]
        order == <<"Academic Period", "Time Status", "Student Level", "Degree">>
        first == CHOOSE k \in 1..4 :
                    /\ order[k] \notin e.columns
                    /\ \A j \in 1..(k - 1) : order[j] \in e.columns
    IN  IF needed \ e.columns # {}
            THEN [out |-> KeyError(order[first], {}), dfe |-> e]
        ELSE [out |-> Ok(Select(e, enrollment_conditions)), dfe |-> e]

(* total_headcount counting NaN as one more identifier *)
total_headcount_keep_nan(e, term, id_column) ==
    LET f == filter_enrollment_table(e, term)
    IN  IF validate_enrollment_columns(e, id_column) # {}
            THEN [out |-> ValueError(validate_enrollment_columns(e, id_column)),
                  dfe |-> e]
        ELSE [out |-> Ok(Cardinality(set(Column(f.out.value, id_column)))),
              dfe |-> f.dfe]

total_headcount(e, term, id_column) ==
    LET f == filter_enrollment_table(e, term)
    IN  IF validate_enrollment_columns(e, id_column) # {}
            THEN [out |-> ValueError(validate_enrollment_columns(e, id_column)),
                  dfe |-> e]
        ELSE [out |-> Ok(nunique(dropna(Column(f.out.value, id_column)))),
              dfe |-> f.dfe]
(* fall_enrollment with the non-transfer sizes taken as the overlap with  *)
(* the cohorts other than the incoming transfer cohort                    *)
fall_enrollment_overlap(p, r, e, id_column, term, pell, transfer) ==
    LET f == filter_enrollment_table(e, term)
        aid_year == calc_academic_year_from_term(term, TRUE)
        incoming_transfer_cohort ==
            SubSeq(term, 1, 4) \o <<" ">> \o <<"Fall, Transfer, Full-Time">>
        pids == dropna(Column(Select(p,
                    [i \in Index(p) |-> Eq(p.rows[i]["AID_YEAR"], aid_year)]),
                    id_column))
        eids == dropna(Column(f.out.value, id_column))
        rids == dropna(Column(Select(r,
                    [i \in Index(r) |->
                        Ne(r.rows[i]["Cohort Name"], incoming_transfer_cohort)]),
                    id_column))
        rids_t == dropna(Column(Select(r,
                    [i \in Index(r) |->
                        Eq(r.rows[i]["Cohort Name"], incoming_transfer_cohort)]),
                    id_column))
        n_pell_intr == Cardinality(set(pids) \cap set(eids) \cap set(rids_t))
        size ==
            IF ~pell /\ ~transfer
                THEN Cardinality(set(eids) \cap set(rids))
            ELSE IF pell /\ ~transfer
                THEN Cardinality(set(pids) \cap set(eids) \cap set(rids))
            ELSE IF ~pell /\ transfer
                THEN Cardinality(set(eids) \cap set(rids_t))
            ELSE n_pell_intr
    IN  IF validate_pell_columns(p, id_column) # {}
            THEN [out |-> ValueError(validate_pell_columns(p, id_column)), dfe |-> e]
        ELSE IF validate_cohort_columns(r, id_column) # {}
            THEN [out |-> ValueError(validate_cohort_columns(r, id_column)), dfe |-> e]
        ELSE IF validate_enrollment_columns(e, id_column) # {}
            THEN [out |-> ValueError(validate_enrollment_columns(e, id_column)),
                  dfe |-> e]
        ELSE [out |-> Ok(size), dfe |-> f.dfe]

fall_enrollment(p, r, e, id_column, term, pell, transfer) ==
    LET f == filter_enrollment_table(e, term)
        aid_year == calc_academic_year_from_term(term, TRUE)
        incoming_transfer_cohort ==
            SubSeq(term, 1, 4) \o <<" ">> \o <<"Fall, Transfer, Full-Time">>
        pids == dropna(Column(Select(p,
                    [i \in Index(p) |-> Eq(p.rows[i]["AID_YEAR"], aid_year)]),
                    id_column))
        eids == dropna(Column(f.out.value, id_column))
        rids == dropna(Column(Select(r,
                    [i \in Index(r) |->
                        Ne(r.rows[i]["Cohort Name"], incoming_transfer_cohort)]),
                    id_column))
        rids_t == dropna(Column(Select(r,
                    [i \in Index(r) |->
                        Eq(r.rows[i]["Cohort Name"], incoming_transfer_cohort)]),
                    id_column))
        n_pell_intr == Cardinality(set(pids) \cap set(eids) \cap set(rids_t))
        size ==
            IF ~pell /\ ~transfer
                THEN Cardinality(set(eids)) - Cardinality(set(rids_t))
            ELSE IF pell /\ ~transfer
                THEN Cardinality(set(pids) \cap set(eids)) - n_pell_intr
            ELSE IF ~pell /\ transfer
                THEN Cardinality(set(eids) \cap set(rids_t))
            ELSE n_pell_intr
    IN  IF validate_pell_columns(p, id_column) # {}
            THEN [out |-> ValueError(validate_pell_columns(p, id_column)), dfe |-> e]
        ELSE IF validate_cohort_columns(r, id_column) # {}
            THEN [out |-> ValueError(validate_cohort_columns(r, id_column)), dfe |-> e]
        ELSE IF validate_enrollment_columns(e, id_column) # {}
            THEN [out |-> ValueError(validate_enrollment_columns(e, id_column)),
                  dfe |-> e]
        ELSE [out |-> Ok(size), dfe |-> f.dfe]

(* grs_cohort_grad counting the graduates of every cohort *)
grs_cohort_grad_all_cohorts(r, id_column, term, years_to_grad, cohort_column) ==
    LET cond2 == to_numeric_le(dropna(Column(r, "Years to Graduation")), years_to_grad)
        n_grad == sum(cond2)
        n_tot == grs_cohort(r, id_column, term, cohort_column)
    IN  IF validate_cohort_columns(r, id_column) # {}
            THEN ValueError(validate_cohort_columns(r, id_column))
        ELSE IF cohort_column \notin r.columns
            THEN KeyError(cohort_column, {})
        ELSE IF n_tot.kind # "ok" THEN n_tot
        ELSE Rate(n_grad, n_tot.value)

grs_cohort_grad(r, id_column, term, years_to_grad, cohort_column) ==
    LET cohort == construct_cohort(term)
        cond1 == [i \in Index(r) |-> Eq(r.rows[i][cohort_column], cohort)]
        cond2 == to_numeric_le(dropna(Column(r, "Years to Graduation")), years_to_grad)
        n_grad == sum(And(cond1, cond2))
        n_tot == grs_cohort(r, id_column, term, cohort_column)
    IN  IF validate_cohort_columns(r, id_column) # {}
            THEN ValueError(validate_cohort_columns(r, id_column))
        ELSE IF cohort_column \notin r.columns
            THEN KeyError(cohort_column, {})
        ELSE IF n_tot.kind # "ok" THEN n_tot
        ELSE Rate(n_grad, n_tot.value)

grs_cohort_pell_grad(p, r, id_column, term, years_to_grad, aid_year_column, cohort_column) ==
    LET aid_year == calc_academic_year_from_term(term, TRUE)
        cohort == construct_cohort(term)
        pids == dropna(Column(Select(p,
                    [i \in Index(p) |-> Eq(p.rows[i][aid_year_column], aid_year)]),
                    id_column))
        cond1 == [i \in Index(r) |-> Eq(r.rows[i][cohort_column], cohort)]
        cond2 == to_numeric_le(dropna(Column(r, "Years to Graduation")), years_to_grad)
        rids == dropna(Column(Select(r, And(cond1, cond2)), id_column))
        n_grad == Cardinality(set(pids) \cap set(rids))
        n_tot == grs_cohort_pell(p, r, id_column, term, aid_year_column, cohort_column)
    IN  IF validate_pell_columns(p, id_column) # {}
            THEN ValueError(validate_pell_columns(p, id_column))
        ELSE IF validate_cohort_columns(r, id_column) # {}
            THEN ValueError(validate_cohort_columns(r, id_column))
        ELSE IF aid_year_column \notin p.columns
            THEN KeyError(aid_year_column, {})
        ELSE IF cohort_column \notin r.columns
            THEN KeyError(cohort_column, {"pids"})
        ELSE IF n_tot.kind # "ok" THEN n_tot
        ELSE Rate(n_grad, n_tot.value)

second_year_retention_rate(r, id_column, term, cohort_column) ==
    LET retention_term == adjust_term(term, 1)
        cohort == construct_cohort(term)
        cond1 == [i \in Index(r) |-> Eq(r.rows[i][cohort_column], cohort)]
        cond2 == [i \in Index(r) |->
                    Eq(r.rows[i]["Academic Period 2nd Fall"], retention_term)]
        n_ret == sum(And(cond1, cond2))
        n_tot == grs_cohort(r, id_column, term, cohort_column)
    IN  IF validate_cohort_columns(r, id_column) # {}
            THEN ValueError(validate_cohort_columns(r, id_column))
        ELSE IF cohort_column \notin r.columns
            THEN KeyError(cohort_column, {})
        ELSE IF n_tot.kind # "ok" THEN n_tot
        ELSE Rate(n_ret, n_tot.value)

second_year_retention_rate_pell(p, r, id_column, term, aid_year_column, cohort_column) ==
    LET aid_year == calc_academic_year_from_term(term, TRUE)
        cohort == construct_cohort(term)
        pids == dropna(Column(Select(p,
                    [i \in Index(p) |-> Eq(p.rows[i][aid_year_column], aid_year)]),
                    id_column))
        retention_term == adjust_term(term, 1)
        cond1 == [i \in Index(r) |-> Eq(r.rows[i][cohort_column], cohort)]
        cond2 == [i \in Index(r) |->
                    Eq(r.rows[i]["Academic Period 2nd Fall"], retention_term)]
        rids == dropna(Column(Select(r, And(cond1, cond2)), id_column))
        n_ret == Cardinality(set(pids) \cap set(rids))
        n_tot == grs_cohort_pell(p, r, id_column, term, aid_year_column, cohort_column)
    IN  IF validate_pell_columns(p, id_column) # {}
            THEN ValueError(validate_pell_columns(p, id_column))
        ELSE IF validate_cohort_columns(r, id_column) # {}
            THEN ValueError(validate_cohort_columns(r, id_column))
        ELSE IF aid_year_column \notin p.columns
            THEN KeyError(aid_year_column, {})
        ELSE IF cohort_column \notin r.columns
            THEN KeyError(cohort_column, {"pids"})
        ELSE IF n_tot.kind # "ok" THEN n_tot
        ELSE Rate(n_ret, n_tot.value)
-----------------------------------------------------------------------------
(* tables_for_carol.py *)

(* df.to_excel(outfile, index=False): the rows in index order, labels dropped *)
RECURSIVE RowsInOrder(_)
RowsInOrder(rows) ==
    IF DOMAIN rows = {} THEN <<>>
    ELSE LET m == CHOOSE i \in DOMAIN rows : \A j \in DOMAIN rows : i <= j
         IN  <<rows[m]>> \o RowsInOrder([i \in (DOMAIN rows) \ {m} |-> rows[i]])

(* the extract with one row per identifier: df.drop_duplicates('ID') *)
generate_table_for_carol_unique(e, term) ==
    LET f == filter_enrollment_table(e, term)
        aid_year == calc_academic_year_from_term(term, FALSE)
        first == {i \in Index(f.out.value) :
                    \A j \in Index(f.out.value) :
                        f.out.value.rows[j]["ID"] = f.out.value.rows[i]["ID"] => i <= j}
        df == [i \in first |->
                 [c \in {"ID", "Person Uid", "Academic Period", "Aid Year"} |->
                    CASE c = "ID"              -> f.out.value.rows[i]["ID"]
                      [] c = "Person Uid"      -> f.out.value.rows[i]["Person Uid"]
                      [] c = "Academic Period" -> term
                      [] c = "Aid Year"        -> aid_year]]
        filename == <<"Fall", " ">> \o SubSeq(term, 1, 4) \o <<" ",
            "Enrolled Full-Time Student IDs from Census Data Enrollment.xlsx">>
    IN  IF f.out.kind # "ok" THEN f
        ELSE IF "ID" \notin e.columns
            THEN [out |-> KeyError("ID", {"filter"}), dfe |-> f.dfe]
        ELSE IF "Person Uid" \notin e.columns
            THEN [out |-> KeyError("Person Uid", {"filter"}), dfe |-> f.dfe]
        ELSE [out |-> Ok([file |-> filename, sheet |-> RowsInOrder(df)]),
              dfe |-> f.dfe]

generate_table_for_carol(e, term) ==
    LET f == filter_enrollment_table(e, term)
        aid_year == calc_academic_year_from_term(term, FALSE)
        df == [i \in Index(f.out.value) |->
                 [c \in {"ID", "Person Uid", "Academic Period", "Aid Year"} |->
                    CASE c = "ID"              -> f.out.value.rows[i]["ID"]
                      [] c = "Person Uid"      -> f.out.value.rows[i]["Person Uid"]
                      [] c = "Academic Period" -> term
                      [] c = "Aid Year"        -> aid_year]]
        filename == <<"Fall", " ">> \o SubSeq(term, 1, 4) \o <<" ",
            "Enrolled Full-Time Student IDs from Census Data Enrollment.xlsx">>
    IN  IF f.out.kind # "ok" THEN f
        ELSE IF "ID" \notin e.columns
            THEN [out |-> KeyError("ID", {"filter"}), dfe |-> f.dfe]
        ELSE IF "Person Uid" \notin e.columns
            THEN [out |-> KeyError("Person Uid", {"filter"}), dfe |-> f.dfe]
        ELSE [out |-> Ok([file |-> filename, sheet |-> RowsInOrder(df)]),
              dfe |-> f.dfe]

generate_ipeds_table_for_carol(r, acad_year) ==
    LET fiscal_year == SubSeq(acad_year, Len(acad_year) - 3, Len(acad_year))
        needed == <<"Cohort Fiscal Year", "ID", "Person Uid", "Cohort",
                    "Cohort Academic Period">>
        first == CHOOSE k \in 1..5 :
                    /\ needed[k] \notin r.columns
                    /\ \A j \in 1..(k - 1) : needed[j] \in r.columns
        sel == Select(r, [i \in Index(r) |->
                            Eq(r.rows[i]["Cohort Fiscal Year"], fiscal_year)])
        df == [i \in Index(sel) |->
                 [c \in {"ID", "Person Uid", "Cohort", "Cohort Term"} |->
                    CASE c = "ID"          -> sel.rows[i]["ID"]
                      [] c = "Person Uid"  -> sel.rows[i]["Person Uid"]
                      [] c = "Cohort"      -> sel.rows[i]["Cohort"]
                      [] c = "Cohort Term" -> sel.rows[i]["Cohort Academic Period"]]]
        filename == acad_year \o <<" ",
            "All-Cohorts Student IDs from Undergraduate Retention and Graduation.xlsx">>
    IN  IF \E k \in 1..5 : needed[k] \notin r.columns
            THEN [out |-> KeyError(needed[first], {}), dfr |-> r]
        ELSE [out |-> Ok([file |-> filename, sheet |-> RowsInOrder(df)]),
              dfr |-> r]

-----------------------------------------------------------------------------
(* The inputs: tables as infer_and_read_file returns them (string cells,  *)
(* NaN for blanks, a RangeIndex)                                          *)

T24 == <<"2", "0", "2", "4", "8", "0">>

T25 == <<"2", "0", "2", "5", "8", "0">>

T26 == adjust_term(T25, 1)

Terms == {T24, T25}

Y24 == calc_academic_year_from_term(T24, TRUE)

Y25 == calc_academic_year_from_term(T25, TRUE)

PersonUid(id) == IF isna(id) THEN <<"9">> ELSE <<"7">> \o id

FullTime(term) == construct_cohort(term)

Transfer(term) == SubSeq(term, 1, 4) \o <<" ">> \o <<"Fall, Transfer, Full-Time">>

PellColumns == {"ID", "AID_YEAR"}

CohortColumns == {"ID", "Person Uid", "Cohort Name", "Years to Graduation",
                  "Academic Period 2nd Fall", "Cohort Fiscal Year", "Cohort",
                  "Cohort Academic Period"}

EnrollmentColumns == {"ID", "Person Uid", "Academic Period", "Time Status",
                      "Student Level", "Degree"}

AidRow(id, aid_year) ==
    [c \in PellColumns |-> IF c = "ID" THEN id ELSE aid_year]

CohortRow(id, name, ytg, second) ==
    [c \in CohortColumns |->
        CASE c = "ID"                       -> id
          [] c = "Person Uid"               -> PersonUid(id)
          [] c = "Cohort Name"              -> name
          [] c = "Years to Graduation"      -> ytg
          [] c = "Academic Period 2nd Fall" -> second
          [] c = "Cohort Fiscal Year"       -> zfill(int(SubSeq(name, 1, 4)) + 1, 4)
          [] c = "Cohort"                   -> <<name[6]>>
          [] c = "Cohort Academic Period"   -> SubSeq(name, 1, 4) \o <<"8", "0">>]

EnrollRow(id, period, status, level, degree) ==
    [c \in EnrollmentColumns |->
        CASE c = "ID"              -> id
          [] c = "Person Uid"      -> PersonUid(id)
          [] c = "Academic Period" -> period
          [] c = "Time Status"     -> status
          [] c = "Student Level"   -> level
          [] c = "Degree"          -> degree]

Frame(columns, rowseq) == [columns |-> columns, rows |-> rowseq]

(* every table of at most n rows drawn from the row kinds, the rows       *)
(* grouped by kind in the order kinds lists them (the metrics read rows   *)
(* through masks and sets, so the order of the rows is immaterial);       *)
(* Grouped(k, m) is the ways to pick k of m kinds in that order           *)
Grouped(k, m) ==
    {g \in [1..k -> 1..m] : \A i \in 1..(k - 1) : g[i] <= g[i + 1]}

Frames(columns, kinds, n) ==
    UNION {{Frame(columns, [i \in 1..k |-> kinds[g[i]]]) :
              g \in Grouped(k, Len(kinds))} : k \in 0..n}

(* the frame with the given columns only *)
Project(df, columns) ==
    [columns |-> columns,
     rows |-> [i \in Index(df) |-> [c \in columns |-> df.rows[i][c]]]]

-----------------------------------------------------------------------------
(* Input slices.  Each fixes the columns a family of metrics does not     *)
(* read and varies the ones it reads.                                     *)

OneAid == Frame(PellColumns, <<AidRow(<<"1">>, Y25)>>)

OneCohort == Frame(CohortColumns, <<CohortRow(<<"1">>, Transfer(T25), <<"4">>, T26)>>)

OneEnroll == Frame(EnrollmentColumns,
                   <<EnrollRow(<<"1">>, T25, <<"FT">>, <<"UG">>, <<"BA">>)>>)

(* aid table x cohort table: Pell counts against cohort sizes *)
InitPellCohort ==
    /\ dfp \in Frames(PellColumns,
          <<AidRow(<<"1">>, Y25), AidRow(<<"2">>, Y25), AidRow(NaN, Y25),
            AidRow(<<"1">>, Y24)>>,
          MaxRows)
    /\ dfr \in Frames(CohortColumns,
          <<CohortRow(<<"1">>, FullTime(T25), <<"4">>, T26),
            CohortRow(<<"2">>, FullTime(T25), <<"4">>, T26),
            CohortRow(NaN, FullTime(T25), <<"4">>, T26),
            CohortRow(<<"1">>, Transfer(T25), <<"4">>, T26)>>,
          MaxRows)
    /\ dfe = OneEnroll

(* cohort table with every kind of "Years to Graduation" cell *)
InitGraduation ==
    /\ dfp \in {Frame(PellColumns, <<>>), OneAid}
    /\ dfr \in Frames(CohortColumns,
          <<CohortRow(<<"1">>, FullTime(T25), <<"4">>, T26),
            CohortRow(<<"1">>, FullTime(T25), <<"6">>, T26),
            CohortRow(<<"1">>, FullTime(T25), NaN, T26),
            CohortRow(<<"1">>, FullTime(T25), <<"x">>, T26),
            CohortRow(NaN, FullTime(T25), <<"4">>, T26),
            CohortRow(<<"1">>, FullTime(T24), <<"4">>, T26)>>,
          MaxRows)
    /\ dfe = OneEnroll

(* cohort table with every kind of "Academic Period 2nd Fall" cell *)
InitRetention ==
    /\ dfp \in {Frame(PellColumns, <<>>), OneAid}
    /\ dfr \in Frames(CohortColumns,
          <<CohortRow(<<"1">>, FullTime(T25), <<"4">>, T26),
            CohortRow(<<"1">>, FullTime(T25), <<"4">>, T25),
            CohortRow(<<"1">>, FullTime(T25), <<"4">>, NaN),
            CohortRow(NaN, FullTime(T25), <<"4">>, T26),
            CohortRow(<<"1">>, FullTime(T24), <<"4">>, T26)>>,
          MaxRows)
    /\ dfe = OneEnroll

(* enrollment rows: passing rows, and rows with one cell changed *)
EnrollKinds ==
    <<EnrollRow(<<"1">>, T25, <<"FT">>, <<"UG">>, <<"BA">>),
      EnrollRow(<<"2">>, T25, <<"FT">>, <<"UG">>, <<"BA">>),
      EnrollRow(NaN, T25, <<"FT">>, <<"UG">>, <<"BA">>),
      EnrollRow(<<"1">>, T24, <<"FT">>, <<"UG">>, <<"BA">>),
      EnrollRow(<<"1">>, T25, <<"PT">>, <<"UG">>, <<"BA">>),
      EnrollRow(<<"1">>, T25, <<"FT">>, <<"GR">>, <<"BA">>),
      EnrollRow(<<"1">>, T25, <<"FT">>, <<"UG">>, <<"Non Degree">>),
      EnrollRow(<<"1">>, T25, <<"FT">>, <<"UG">>, NaN)>>

(* any one enrollment row *)
EnrollAny ==
    {EnrollRow(id, period, status, level, degree) :
        id \in {<<"1">>, NaN}, period \in Terms \cup {NaN},
        status \in {<<"FT">>, <<"PT">>, NaN}, level \in {<<"UG">>, <<"GR">>, NaN},
        degree \in {<<"BA">>, <<"Non Degree">>, NaN}}

InitEnrollment ==
    /\ dfp = OneAid
    /\ dfr = OneCohort
    /\ dfe \in Frames(EnrollmentColumns, EnrollKinds, MaxRows)
               \cup {Frame(EnrollmentColumns, <<row>>) : row \in EnrollAny}

(* aid x cohort x enrollment: the id sets P, E and T of fall_enrollment *)
InitFall ==
    /\ dfp \in Frames(PellColumns,
          <<AidRow(<<"1">>, Y25), AidRow(<<"2">>, Y25)>>, MaxRows)
    /\ dfr \in Frames(CohortColumns,
          <<CohortRow(<<"1">>, Transfer(T25), <<"4">>, T26),
            CohortRow(<<"2">>, Transfer(T25), <<"4">>, T26),
            CohortRow(<<"1">>, FullTime(T25), <<"4">>, T26)>>,
          MaxRows)
    /\ dfe \in Frames(EnrollmentColumns,
          <<EnrollRow(<<"1">>, T25, <<"FT">>, <<"UG">>, <<"BA">>),
            EnrollRow(<<"2">>, T25, <<"FT">>, <<"UG">>, <<"BA">>),
            EnrollRow(NaN, T25, <<"FT">>, <<"UG">>, <<"BA">>),
            EnrollRow(<<"1">>, T25, <<"PT">>, <<"UG">>, <<"BA">>)>>,
          MaxRows)

(* tables that lack columns, or carry the aid year under another name *)
InitColumns ==
    /\ dfp \in {Project(Frame(PellColumns \cup {"AY"},
                    <<[c \in PellColumns \cup {"AY"} |->
                         IF c = "ID" THEN <<"1">> ELSE Y25]>>), cs) :
                  cs \in SUBSET (PellColumns \cup {"AY"})}
    /\ dfr \in {Project(OneCohort, CohortColumns \ drop) :
                  drop \in {{}} \cup {{c} : c \in
                     {"ID", "Cohort Name", "Years to Graduation",
                      "Academic Period 2nd Fall", "Cohort"}}}
    /\ dfe \in {Project(OneEnroll, EnrollmentColumns \ drop) :
                  drop \in {{}} \cup {{c} : c \in EnrollmentColumns}}

(* Scenario B of the specification, with the aid year written as the      *)
(* four-digit year and as the two-digit label                             *)
InitScenarioB ==
    /\ dfp \in {Frame(PellColumns,
                  <<AidRow(<<"1">>, ay), AidRow(<<"2">>, ay), AidRow(<<"3">>, ay)>>) :
                  ay \in {<<"2", "0", "2", "5">>, <<"2", "5">>}}
    /\ dfr = Frame(CohortColumns,
                  <<CohortRow(<<"2">>, FullTime(T25), <<"4">>, T26),
                    CohortRow(<<"3">>, FullTime(T25), <<"4">>, T26),
                    CohortRow(<<"4">>, FullTime(T25), <<"4">>, T26)>>)
    /\ dfe = OneEnroll

(* Scenario D of the specification: 100 filtered enrolled ids, 15 of them *)
(* in the transfer cohort                                                 *)
InitScenarioD ==
    /\ dfp = OneAid
    /\ dfr = Frame(CohortColumns,
                  [i \in 1..15 |-> CohortRow(zfill(i, 3), Transfer(T25), <<"4">>, T26)])
    /\ dfe = Frame(EnrollmentColumns,
                  [i \in 1..100 |->
                     EnrollRow(zfill(i, 3), T25, <<"FT">>, <<"UG">>, <<"BA">>)])

-----------------------------------------------------------------------------
(* init_repo.py.  A name is a sequence of characters.  The repository is  *)
(* fs: the name of its root directory, the sentinel file, the package     *)
(* directories under src/, and what pyproject.toml and mkdocs.yml hold.   *)

Lowercase == <<"a", "b", "c", "d", "e", "f", "g", "h", "i", "j", "k", "l", "m",
               "n", "o", "p", "q", "r", "s", "t", "u", "v", "w", "x", "y", "z">>

Uppercase == <<"A", "B", "C", "D", "E", "F", "G", "H", "I", "J", "K", "L", "M",
               "N", "O", "P", "Q", "R", "S", "T", "U", "V", "W", "X", "Y", "Z">>

(* str.lower(), one character *)
lower(c) ==
    IF \E k \in 1..26 : Uppercase[k] = c
        THEN Lowercase[CHOOSE k \in 1..26 : Uppercase[k] = c]
    ELSE c

(* str.strip(chars): the characters of the class removed at both ends *)
RECURSIVE strip(_, _)
strip(s, class) ==
    IF s = <<>> THEN s
    ELSE IF s[1] \in class THEN strip(Tail(s), class)
    ELSE IF s[Len(s)] \in class THEN strip(SubSeq(s, 1, Len(s) - 1), class)
    ELSE s

(* re.sub("[class]+", "_", s): every maximal run of the class becomes "_" *)
RECURSIVE sub_runs(_, _)
sub_runs(s, class) ==
    IF s = <<>> THEN s
    ELSE IF s[1] \in class
        THEN IF Len(s) > 1 /\ s[2] \in class THEN sub_runs(Tail(s), class)
             ELSE <<"_">> \o sub_runs(Tail(s), class)
    ELSE <<s[1]>> \o sub_runs(Tail(s), class)

Whitespace == {" "}

IdentifierChars == {Lowercase[k] : k \in 1..26} \cup {Digits[k] : k \in 1..10} \cup {"_"}

normalize_package_name(name) ==
    LET s1 == [k \in 1..Len(strip(name, Whitespace)) |-> lower(strip(name, Whitespace)[k])]
        s2 == sub_runs(s1, Whitespace \cup {"-"})
        s3 == [k \in 1..Len(s2) |-> IF s2[k] \in IdentifierChars THEN s2[k] ELSE "_"]
        s4 == strip(sub_runs(s3, {"_"}), {"_"})
    IN  IF s4 = <<>> THEN <<"p", "k", "g">>
        ELSE IF s4[1] \notin {Lowercase[k] : k \in 1..26} \cup {"_"}
            THEN <<"p", "k", "g", "_">> \o s4
        ELSE s4

(* src/ir_pipeline_template *)
TemplatePackage == <<"i", "r", "_", "p", "i", "p", "e", "l", "i", "n", "e", "_",
                     "t", "e", "m", "p", "l", "a", "t", "e">>

(* the outcome of one update step: the repository after it and the        *)
(* exception it raised, "none" when it completed                          *)
Step(f, exc) == [fs |-> f, exc |-> exc]

update_pyproject(f) ==
    IF f.pyproject.state = "absent" THEN Step(f, "FileNotFoundError")
    ELSE IF f.pyproject.state = "invalid" THEN Step(f, "TomlDecodeError")
    ELSE IF f.pyproject.state = "noproject" THEN Step(f, "KeyError")
    ELSE Step([f EXCEPT !.pyproject.name = normalize_package_name(f.name)], "none")

(* update_mkdocs returning quietly when mkdocs.yml cannot be updated *)
update_mkdocs_quiet(f) ==
    IF f.mkdocs.state # "ok" THEN Step(f, "none")
    ELSE Step([f EXCEPT !.mkdocs.site_name = f.name], "none")

update_mkdocs(f) ==
    IF f.mkdocs.state = "absent" THEN Step(f, "FileNotFoundError")
    ELSE IF f.mkdocs.state = "invalid" THEN Step(f, "YAMLError")
    ELSE IF f.mkdocs.state = "empty" THEN Step(f, "TypeError")
    ELSE Step([f EXCEPT !.mkdocs.site_name = f.name], "none")

update_package_name(f) ==
    LET old_dir == TemplatePackage
        new_dir == normalize_package_name(f.name)
    IN  IF old_dir \notin f.src THEN Step(f, "RuntimeError")
        ELSE IF new_dir \in f.src THEN Step(f, "RuntimeError")
        ELSE Step([f EXCEPT !.src = (f.src \ {old_dir}) \cup {new_dir}], "none")

(* root.name of the repositories considered *)
RepoNames ==
    {<<"i", "r", "-", "p", "i", "p", "e", "l", "i", "n", "e", "-",
       "t", "e", "m", "p", "l", "a", "t", "e">>,
     <<"M", "y", " ", "R", "e", "p", "o">>,
     <<"2", "0", "2", "5", "-", "i", "r">>,
     <<"p", "e", "l", "l", ".", "v", "2">>,
     <<"-", "-">>}

NoSentinel == [exists |-> FALSE, stamp |-> 0]

(* a .repo_initialized that main did not write *)
ForeignSentinel == [exists |-> TRUE, stamp |-> 0]

(* the project name and site name the template ships with *)
TemplateName == <<"i", "r", "-", "p", "i", "p", "e", "l", "i", "n", "e", "-",
                  "t", "e", "m", "p", "l", "a", "t", "e">>

PyprojectFiles(name) ==
    {[state |-> st, name |-> <<>>] : st \in {"absent", "invalid", "noproject"}}
    \cup {[state |-> "ok", name |-> n] : n \in {TemplateName, normalize_package_name(name)}}

MkdocsFiles(name) ==
    {[state |-> st, site_name |-> <<>>] : st \in {"absent", "invalid", "empty"}}
    \cup {[state |-> "ok", site_name |-> n] : n \in {TemplateName, name}}

(* a freshly cloned template named ir-pipeline-template; the value of fs  *)
(* where init_repo is not under study                                     *)
FreshClone ==
    [name |-> TemplateName, sentinel |-> NoSentinel, src |-> {TemplatePackage},
     pyproject |-> [state |-> "ok", name |-> TemplateName],
     mkdocs |-> [state |-> "ok", site_name |-> TemplateName]]

(* main has not been called; ret -1 stands for no return value *)
NotRun == [pc |-> "idle", ret |-> -1, exc |-> "none", done |-> {}, clock |-> 0]

NoCall == [fn |-> "none", args |-> <<>>, out |-> Ok(0)]

Init ==
    /\ \/ InitPellCohort
       \/ InitGraduation
       \/ InitRetention
       \/ InitEnrollment
       \/ InitFall
       \/ InitColumns
       \/ InitScenarioB
       \/ InitScenarioD
    /\ last = NoCall
    /\ fs = FreshClone
    /\ run = NotRun

-----------------------------------------------------------------------------
(* The calls a report run makes, one at a time: a call leaves its result  *)
(* in last, and the caller takes it before the next call                  *)

DefaultColumns ==
    [id_column |-> "ID", aid_year_column |-> "AID_YEAR", cohort_column |-> "Cohort Name"]

ColumnArgs ==
    {DefaultColumns,
     [DefaultColumns EXCEPT !.id_column = "Person Uid"],
     [DefaultColumns EXCEPT !.aid_year_column = "AY"],
     [DefaultColumns EXCEPT !.cohort_column = "Cohort"]}

(* every term with the default columns, one term with each override *)
CallArgs ==
    {[term |-> t, col |-> DefaultColumns] : t \in Terms}
    \cup {[term |-> T25, col |-> c] : c \in ColumnArgs}

YearsToGrad == {4, 6}

AcadYears == {<<"2", "0", "2", "5", "-", "2", "0", "2", "6">>}

Call_grs_cohort_pell ==
    /\ last.fn = "none"
    /\ \E a \in CallArgs :
        /\ last' = [fn   |-> "grs_cohort_pell",
                    args |-> [id_column |-> a.col.id_column, term |-> a.term,
                              aid_year_column |-> a.col.aid_year_column,
                              cohort_column |-> a.col.cohort_column],
                    out  |-> grs_cohort_pell(dfp, dfr, a.col.id_column, a.term,
                                a.col.aid_year_column, a.col.cohort_column)]
        /\ UNCHANGED <<dfp, dfr, dfe, fs, run>>

Call_grs_cohort ==
    /\ last.fn = "none"
    /\ \E a \in CallArgs :
        /\ last' = [fn   |-> "grs_cohort",
                    args |-> [id_column |-> a.col.id_column, term |-> a.term,
                              cohort_column |-> a.col.cohort_column],
                    out  |-> grs_cohort(dfr, a.col.id_column, a.term,
                                a.col.cohort_column)]
        /\ UNCHANGED <<dfp, dfr, dfe, fs, run>>

Call_total_headcount ==
    /\ last.fn = "none"
    /\ \E a \in CallArgs :
        LET c == total_headcount(dfe, a.term, a.col.id_column)
        IN  /\ last' = [fn   |-> "total_headcount",
                        args |-> [term |-> a.term, id_column |-> a.col.id_column],
                        out  |-> c.out]
            /\ dfe' = c.dfe
            /\ UNCHANGED <<dfp, dfr, fs, run>>

Call_fall_enrollment ==
    /\ last.fn = "none"
    /\ \E a \in CallArgs, pell \in BOOLEAN, transfer \in BOOLEAN :
        LET c == fall_enrollment(dfp, dfr, dfe, a.col.id_column, a.term, pell, transfer)
        IN  /\ last' = [fn   |-> "fall_enrollment",
                        args |-> [id_column |-> a.col.id_column, term |-> a.term,
                                  pell |-> pell, transfer |-> transfer],
                        out  |-> c.out]
            /\ dfe' = c.dfe
            /\ UNCHANGED <<dfp, dfr, fs, run>>

Call_grs_cohort_grad ==
    /\ last.fn = "none"
    /\ \E a \in CallArgs, years_to_grad \in YearsToGrad :
        /\ last' = [fn   |-> "grs_cohort_grad",
                    args |-> [id_column |-> a.col.id_column, term |-> a.term,
                              years_to_grad |-> years_to_grad,
                              cohort_column |-> a.col.cohort_column],
                    out  |-> grs_cohort_grad(dfr, a.col.id_column, a.term,
                                years_to_grad, a.col.cohort_column)]
        /\ UNCHANGED <<dfp, dfr, dfe, fs, run>>

Call_grs_cohort_pell_grad ==
    /\ last.fn = "none"
    /\ \E a \in CallArgs, years_to_grad \in YearsToGrad :
        /\ last' = [fn   |-> "grs_cohort_pell_grad",
                    args |-> [id_column |-> a.col.id_column, term |-> a.term,
                              years_to_grad |-> years_to_grad,
                              aid_year_column |-> a.col.aid_year_column,
                              cohort_column |-> a.col.cohort_column],
                    out  |-> grs_cohort_pell_grad(dfp, dfr, a.col.id_column, a.term,
                                years_to_grad, a.col.aid_year_column,
                                a.col.cohort_column)]
        /\ UNCHANGED <<dfp, dfr, dfe, fs, run>>

Call_second_year_retention_rate ==
    /\ last.fn = "none"
    /\ \E a \in CallArgs :
        /\ last' = [fn   |-> "second_year_retention_rate",
                    args |-> [id_column |-> a.col.id_column, term |-> a.term,
                              cohort_column |-> a.col.cohort_column],
                    out  |-> second_year_retention_rate(dfr, a.col.id_column, a.term,
                                a.col.cohort_column)]
        /\ UNCHANGED <<dfp, dfr, dfe, fs, run>>

Call_second_year_retention_rate_pell ==
    /\ last.fn = "none"
    /\ \E a \in CallArgs :
        /\ last' = [fn   |-> "second_year_retention_rate_pell",
                    args |-> [id_column |-> a.col.id_column, term |-> a.term,
                              aid_year_column |-> a.col.aid_year_column,
                              cohort_column |-> a.col.cohort_column],
                    out  |-> second_year_retention_rate_pell(dfp, dfr, a.col.id_column,
                                a.term, a.col.aid_year_column, a.col.cohort_column)]
        /\ UNCHANGED <<dfp, dfr, dfe, fs, run>>

Call_generate_table_for_carol ==
    /\ last.fn = "none"
    /\ \E term \in Terms :
        LET c == generate_table_for_carol(dfe, term)
        IN  /\ last' = [fn |-> "generate_table_for_carol",
                        args |-> [term |-> term], out |-> c.out]
            /\ dfe' = c.dfe
            /\ UNCHANGED <<dfp, dfr, fs, run>>

Call_generate_ipeds_table_for_carol ==
    /\ last.fn = "none"
    /\ \E acad_year \in AcadYears :
        LET c == generate_ipeds_table_for_carol(dfr, acad_year)
        IN  /\ last' = [fn |-> "generate_ipeds_table_for_carol",
                        args |-> [acad_year |-> acad_year], out |-> c.out]
            /\ dfr' = c.dfr
            /\ UNCHANGED <<dfp, dfe, fs, run>>

Return ==
    /\ last.fn # "none"
    /\ last' = NoCall
    /\ UNCHANGED <<dfp, dfr, dfe, fs, run>>

Next ==
    \/ Return
    \/ Call_grs_cohort_pell
    \/ Call_grs_cohort
    \/ Call_total_headcount
    \/ Call_fall_enrollment
    \/ Call_grs_cohort_grad
    \/ Call_grs_cohort_pell_grad
    \/ Call_second_year_retention_rate
    \/ Call_second_year_retention_rate_pell
    \/ Call_generate_table_for_carol
    \/ Call_generate_ipeds_table_for_carol

Spec == Init /\ [][Next]_vars

-----------------------------------------------------------------------------
(* init_repo.main, a step at a time.  run holds the position of main, the *)
(* value it returned (or the exception it raised), the update steps it    *)
(* completed in the current call and clock, the time of the call.         *)

InitRepoInit ==
    /\ \E name \in RepoNames :
          fs \in [name : {name},
                  sentinel : {NoSentinel, ForeignSentinel},
                  src : SUBSET {TemplatePackage, normalize_package_name(name)},
                  pyproject : PyprojectFiles(name),
                  mkdocs : MkdocsFiles(name)]
    /\ run = NotRun
    /\ dfp = OneAid /\ dfr = OneCohort /\ dfe = OneEnroll
    /\ last = NoCall

Tables == <<dfp, dfr, dfe, last>>

(* main with the sentinel test left out *)
main_begin_unchecked ==
    /\ run.pc \in {"idle", "exit"}
    /\ run.clock < MaxRuns
    /\ run' = [pc |-> "update_package_name", ret |-> -1, exc |-> "none",
               done |-> {}, clock |-> run.clock + 1]
    /\ UNCHANGED <<fs, Tables>>

(* lines 77-89: a call of main up to the sentinel test *)
main_begin ==
    /\ run.pc \in {"idle", "exit"}
    /\ run.clock < MaxRuns
    /\ IF fs.sentinel.exists
           THEN run' = [pc |-> "exit", ret |-> 1, exc |-> "none", done |-> {},
                        clock |-> run.clock + 1]
       ELSE run' = [pc |-> "update_package_name", ret |-> -1, exc |-> "none",
                    done |-> {}, clock |-> run.clock + 1]
    /\ UNCHANGED <<fs, Tables>>

(* main after an update step: an exception leaves main at once *)
Advance(step, exc, next) ==
    IF exc = "none" THEN [run EXCEPT !.pc = next, !.done = @ \cup {step}]
    ELSE [run EXCEPT !.pc = "exit", !.exc = exc]

(* line 91 *)
main_update_package_name ==
    /\ run.pc = "update_package_name"
    /\ fs' = update_package_name(fs).fs
    /\ run' = Advance("update_package_name", update_package_name(fs).exc,
                      "update_pyproject")
    /\ UNCHANGED Tables

(* line 92 *)
main_update_pyproject ==
    /\ run.pc = "update_pyproject"
    /\ fs' = update_pyproject(fs).fs
    /\ run' = Advance("update_pyproject", update_pyproject(fs).exc, "update_mkdocs")
    /\ UNCHANGED Tables

(* line 93 *)
main_update_mkdocs ==
    /\ run.pc = "update_mkdocs"
    /\ fs' = update_mkdocs(fs).fs
    /\ run' = Advance("update_mkdocs", update_mkdocs(fs).exc, "write_text")
    /\ UNCHANGED Tables

(* lines 96-101: the sentinel is written with the time of the call *)
main_write_text ==
    /\ run.pc = "write_text"
    /\ fs' = [fs EXCEPT !.sentinel = [exists |-> TRUE, stamp |-> run.clock]]
    /\ run' = [run EXCEPT !.pc = "exit", !.ret = 0]
    /\ UNCHANGED Tables

(* the user follows the message of lines 84-87 and deletes the sentinel *)
delete_sentinel ==
    /\ run.pc \in {"idle", "exit"}
    /\ fs.sentinel.exists
    /\ fs' = [fs EXCEPT !.sentinel = NoSentinel]
    /\ UNCHANGED <<run, Tables>>

InitRepoNext ==
    \/ main_begin
    \/ main_update_package_name
    \/ main_update_pyproject
    \/ main_update_mkdocs
    \/ main_write_text
    \/ delete_sentinel

InitRepoSpec == InitRepoInit /\ [][InitRepoNext]_vars
-----------------------------------------------------------------------------
(* Vocabulary of the properties *)

Returned(fn) == last.fn = fn /\ last.out.kind = "ok"

DefaultCall ==
    /\ last.args.id_column = "ID"
    /\ "aid_year_column" \in DOMAIN last.args => last.args.aid_year_column = "AID_YEAR"
    /\ "cohort_column" \in DOMAIN last.args => last.args.cohort_column = "Cohort Name"

(* distinct non-null ids of the rows of df that satisfy keep *)
IdsWhere(df, id_column, keep(_)) ==
    {df.rows[i][id_column] : i \in {j \in Index(df) : keep(df.rows[j])}} \ {NaN}

(* E: enrolled ids after the enrollment filter *)
EnrolledIds(id_column, term) ==
    LET keep(row) == /\ row["Academic Period"] = term
                     /\ row["Time Status"] = <<"FT">>
                     /\ row["Student Level"] = <<"UG">>
                     /\ row["Degree"] # <<"Non Degree">>
    IN  IdsWhere(dfe, id_column, keep)

(* P: aid-table ids at the aid year given *)
PellIds(id_column, aid_year) ==
    LET keep(row) == row["AID_YEAR"] = aid_year
    IN  IdsWhere(dfp, id_column, keep)

(* cohort-table ids at the cohort name given *)
CohortIds(id_column, name) ==
    LET keep(row) == row["Cohort Name"] = name
    IN  IdsWhere(dfr, id_column, keep)

(* T: transfer-cohort ids *)
TransferIds(id_column, term) == CohortIds(id_column, Transfer(term))

-----------------------------------------------------------------------------
(* C1: whatever the term and the tables (duplicate and null identifiers   *)
(* included), the Pell count grs_cohort_pell returns is at most the       *)
(* cohort size grs_cohort returns for the same term and cohort table.     *)
C1_PellWithinCohort ==
    Returned("grs_cohort_pell") =>
        LET size == grs_cohort(dfr, last.args.id_column, last.args.term,
                               last.args.cohort_column)
        IN  size.kind = "ok" /\ last.out.value <= size.value

(* a Pell count of 1 from a cohort of two rows that repeat one id, next   *)
(* to an aid row with a null id                                           *)
C1_Witness ==
    /\ Returned("grs_cohort_pell")
    /\ DefaultCall
    /\ last.out.value = 1
    /\ grs_cohort(dfr, "ID", last.args.term, "Cohort Name").value = 2
    /\ Cardinality(CohortIds("ID", FullTime(last.args.term))) = 1
    /\ \E i \in Index(dfp) : isna(dfp.rows[i]["ID"])
-----------------------------------------------------------------------------
(* the value fall_enrollment returns on the current tables *)
FE(id_column, term, pell, transfer) ==
    fall_enrollment(dfp, dfr, dfe, id_column, term, pell, transfer).out.value

(* C2 as stated: for every term and tables,                               *)
(* fall_enrollment(True, True) <= fall_enrollment(False, True)            *)
(*   <= fall_enrollment(False, False) + fall_enrollment(False, True).     *)
C2_Original ==
    Returned("fall_enrollment") =>
        LET id == last.args.id_column
            t  == last.args.term
        IN  /\ FE(id, t, TRUE, TRUE) <= FE(id, t, FALSE, TRUE)
            /\ FE(id, t, FALSE, TRUE) <= FE(id, t, FALSE, FALSE) + FE(id, t, FALSE, TRUE)

(* C2 amended: fall_enrollment(True, True) <= fall_enrollment(False, True) *)
(* always; fall_enrollment(False, True) <= fall_enrollment(False, False)  *)
(* + fall_enrollment(False, True) holds exactly when the transfer cohort  *)
(* has no more distinct non-null ids than the filtered enrollment.        *)
C2_Monotone ==
    Returned("fall_enrollment") =>
        LET id == last.args.id_column
            t  == last.args.term
        IN  /\ FE(id, t, TRUE, TRUE) <= FE(id, t, FALSE, TRUE)
            /\ (FE(id, t, FALSE, TRUE) <= FE(id, t, FALSE, FALSE) + FE(id, t, FALSE, TRUE))
                 <=> (Cardinality(TransferIds(id, t)) <= Cardinality(EnrolledIds(id, t)))

(* both inequalities strict-capable: one Pell transfer among two enrolled *)
(* transfers                                                              *)
C2_Witness ==
    /\ Returned("fall_enrollment")
    /\ last.args.pell /\ last.args.transfer
    /\ last.out.value = 1
    /\ FE(last.args.id_column, last.args.term, FALSE, TRUE) = 2
    /\ Cardinality(TransferIds(last.args.id_column, last.args.term)) = 2

(* C3: with E the distinct non-null ids of the enrollment rows passing    *)
(* the filter, P the non-null aid ids of the term's aid year and T the    *)
(* non-null ids of the transfer cohort, fall_enrollment returns           *)
(* |E| - |T|, |P n E| - |P n E n T|, |E n T| and |P n E n T| for          *)
(* (pell, transfer) = (F, F), (T, F), (F, T), (T, T); 100 filtered ids    *)
(* with 15 in the transfer cohort give 85 for (F, F).                     *)
C3_PolicyTable ==
    Returned("fall_enrollment") =>
        LET id == last.args.id_column
            E == EnrolledIds(id, last.args.term)
            P == PellIds(id, calc_academic_year_from_term(last.args.term, TRUE))
            T == TransferIds(id, last.args.term)
        IN  /\ last.out.value =
                 CASE ~last.args.pell /\ ~last.args.transfer ->
                        Cardinality(E) - Cardinality(T)
                   [] last.args.pell /\ ~last.args.transfer ->
                        Cardinality(P \cap E) - Cardinality(P \cap E \cap T)
                   [] ~last.args.pell /\ last.args.transfer ->
                        Cardinality(E \cap T)
                   [] last.args.pell /\ last.args.transfer ->
                        Cardinality(P \cap E \cap T)
            /\ (/\ Cardinality(E) = 100
                /\ Cardinality(E \cap T) = 15
                /\ Cardinality(T) = 15
                /\ ~last.args.pell /\ ~last.args.transfer) => last.out.value = 85

(* Scenario D: the call (F, F) on 100 enrolled ids, 15 of them transfers *)
C3_Witness ==
    /\ Returned("fall_enrollment")
    /\ ~last.args.pell /\ ~last.args.transfer
    /\ Cardinality(EnrolledIds(last.args.id_column, last.args.term)) = 100
    /\ Cardinality(TransferIds(last.args.id_column, last.args.term)) = 15
    /\ last.out.value = 85
-----------------------------------------------------------------------------
RateFns == {"grs_cohort_grad", "grs_cohort_pell_grad",
            "second_year_retention_rate", "second_year_retention_rate_pell"}

(* the denominator metric of the rate call in last, on the current tables *)
Denominator ==
    IF last.fn \in {"grs_cohort_grad", "second_year_retention_rate"}
        THEN grs_cohort(dfr, last.args.id_column, last.args.term,
                        last.args.cohort_column)
    ELSE grs_cohort_pell(dfp, dfr, last.args.id_column, last.args.term,
                         last.args.aid_year_column, last.args.cohort_column)

(* C4 as stated: a rate function whose denominator metric is zero fails   *)
(* with the named undefined-rate error, never with a raw division error   *)
(* and never with a value.                                                *)
C4_UndefinedRateError ==
    (last.fn \in RateFns /\ Denominator.kind = "ok" /\ Denominator.value = 0)
        => last.out.kind = "UndefinedRateError"

(* C5: when grs_cohort is non-zero, grs_cohort_grad and                   *)
(* second_year_retention_rate return a rate in [0, 1] rounded to three    *)
(* decimals (held here in thousandths): the numerator rows are rows of    *)
(* the cohort.                                                            *)
C5_RateInUnitInterval ==
    (/\ last.fn \in {"grs_cohort_grad", "second_year_retention_rate"}
     /\ Denominator.kind = "ok"
     /\ Denominator.value # 0)
        => /\ last.out.kind = "ok"
           /\ last.out.value \in 0..1000
           /\ \E n \in 0..Denominator.value :
                LET err == 1000 * n - last.out.value * Denominator.value
                IN  2 * err <= Denominator.value /\ -2 * err <= Denominator.value

(* half of a two-row cohort graduated in time; the other row's "Years to  *)
(* Graduation" is blank                                                   *)
C5_Witness ==
    /\ Returned("grs_cohort_grad")
    /\ DefaultCall
    /\ Denominator.value = 2
    /\ last.out.value = 500
    /\ \E i \in Index(dfr) :
          /\ dfr.rows[i]["Cohort Name"] = FullTime(last.args.term)
          /\ isna(dfr.rows[i]["Years to Graduation"])
-----------------------------------------------------------------------------
MetricFns == {"grs_cohort", "grs_cohort_pell", "total_headcount", "fall_enrollment"}
             \cup RateFns

(* the outcome of metric fn with arguments a on the tables p, r, e *)
Apply(fn, a, p, r, e) ==
    CASE fn = "grs_cohort" ->
            grs_cohort(r, a.id_column, a.term, a.cohort_column)
      [] fn = "grs_cohort_pell" ->
            grs_cohort_pell(p, r, a.id_column, a.term, a.aid_year_column,
                            a.cohort_column)
      [] fn = "total_headcount" ->
            total_headcount(e, a.term, a.id_column).out
      [] fn = "fall_enrollment" ->
            fall_enrollment(p, r, e, a.id_column, a.term, a.pell, a.transfer).out
      [] fn = "grs_cohort_grad" ->
            grs_cohort_grad(r, a.id_column, a.term, a.years_to_grad, a.cohort_column)
      [] fn = "grs_cohort_pell_grad" ->
            grs_cohort_pell_grad(p, r, a.id_column, a.term, a.years_to_grad,
                                 a.aid_year_column, a.cohort_column)
      [] fn = "second_year_retention_rate" ->
            second_year_retention_rate(r, a.id_column, a.term, a.cohort_column)
      [] fn = "second_year_retention_rate_pell" ->
            second_year_retention_rate_pell(p, r, a.id_column, a.term,
                                            a.aid_year_column, a.cohort_column)

(* df with one more row, under the next index label *)
AddRow(df, row) ==
    LET n == Cardinality(Index(df)) + 1
    IN  [columns |-> df.columns,
         rows |-> [i \in Index(df) \cup {n} |-> IF i = n THEN row ELSE df.rows[i]]]

(* the rows of universe, cut to the columns of df, with a null identifier *)
NullIdRows(df, id_column, universe) ==
    IF id_column \notin df.columns THEN {}
    ELSE {[c \in df.columns |-> IF c = id_column THEN NaN ELSE u[c]] :
            u \in {v \in universe : df.columns \subseteq DOMAIN v}}

AidUniverse == {AidRow(NaN, ay) : ay \in {Y24, Y25}}

CohortUniverse ==
    {CohortRow(NaN, name, ytg, second) :
        name \in {FullTime(T24), FullTime(T25), Transfer(T25)},
        ytg \in {<<"4">>, NaN}, second \in {T26, NaN}}

EnrollUniverse ==
    {EnrollRow(NaN, period, status, level, degree) :
        period \in Terms, status \in {<<"FT">>, <<"PT">>},
        level \in {<<"UG">>}, degree \in {<<"BA">>, <<"Non Degree">>, NaN}}

(* the outcome of the call in last is the same with a null-id row added   *)
(* to any one input table                                                 *)
NullRowsIgnored ==
    LET a == last.args
    IN  /\ \A u \in NullIdRows(dfp, a.id_column, AidUniverse) :
              Apply(last.fn, a, AddRow(dfp, u), dfr, dfe) = last.out
        /\ \A u \in NullIdRows(dfr, a.id_column, CohortUniverse) :
              Apply(last.fn, a, dfp, AddRow(dfr, u), dfe) = last.out
        /\ \A u \in NullIdRows(dfe, a.id_column, EnrollUniverse) :
              Apply(last.fn, a, dfp, dfr, AddRow(dfe, u)) = last.out

(* C6 as stated: in every metric function, adding a row with a null       *)
(* identifier to any input table never changes the returned count or rate *)
C6_Original == last.fn \in MetricFns => NullRowsIgnored

IdCountingFns == {"grs_cohort_pell", "total_headcount", "fall_enrollment",
                  "grs_cohort_pell_grad", "second_year_retention_rate_pell"}

(* C6 amended: the metrics that count identifiers (grs_cohort_pell,       *)
(* total_headcount, fall_enrollment, grs_cohort_pell_grad,                *)
(* second_year_retention_rate_pell) drop null identifiers: a null-id row  *)
(* added to any table leaves their result as it was.  grs_cohort counts   *)
(* rows: a null-id row cohorted to the term raises it by one.             *)
C6_NullIdsDropped ==
    /\ last.fn \in IdCountingFns => NullRowsIgnored
    /\ Returned("grs_cohort") =>
          \A u \in NullIdRows(dfr, last.args.id_column, CohortUniverse) :
              Apply("grs_cohort", last.args, dfp, AddRow(dfr, u), dfe) =
                  Ok(last.out.value +
                     IF u[last.args.cohort_column] = construct_cohort(last.args.term)
                         THEN 1 ELSE 0)

(* a headcount of 1 from two passing rows, one of them with a null id *)
C6_Witness ==
    /\ Returned("total_headcount")
    /\ last.args.id_column = "ID"
    /\ last.out.value = 1
    /\ Cardinality(Index(filter_enrollment_table(dfe, last.args.term).out.value)) = 2
    /\ \E i \in Index(dfe) : isna(dfe.rows[i]["ID"])
-----------------------------------------------------------------------------
(* the tables of Scenario B, the aid rows at aid year ay *)
ScenarioBTables(ay) ==
    /\ dfp = Frame(PellColumns,
                <<AidRow(<<"1">>, ay), AidRow(<<"2">>, ay), AidRow(<<"3">>, ay)>>)
    /\ dfr = Frame(CohortColumns,
                <<CohortRow(<<"2">>, FullTime(T25), <<"4">>, T26),
                  CohortRow(<<"3">>, FullTime(T25), <<"4">>, T26),
                  CohortRow(<<"4">>, FullTime(T25), <<"4">>, T26)>>)

(* grs_cohort_pell(term) is the number of distinct non-null ids found     *)
(* both in an aid row at the term's academic-year label and in a cohort   *)
(* row named construct_cohort(term)                                       *)
PellCountIsOverlap ==
    (/\ Returned("grs_cohort_pell")
     /\ last.args.aid_year_column = "AID_YEAR"
     /\ last.args.cohort_column = "Cohort Name")
        => last.out.value =
              Cardinality(
                 PellIds(last.args.id_column,
                         calc_academic_year_from_term(last.args.term, TRUE))
                 \cap CohortIds(last.args.id_column, construct_cohort(last.args.term)))

ScenarioBCall == Returned("grs_cohort_pell") /\ DefaultCall /\ last.args.term = T25

-----------------------------------------------------------------------------
FilterColumns == {"Academic Period", "Time Status", "Student Level", "Degree"}

(* the columns the metric call in last reads from each table when it runs *)
(* to its end                                                             *)
ColumnsRead ==
    LET a == last.args
        aid == IF last.fn = "fall_enrollment" THEN "AID_YEAR" ELSE a.aid_year_column
        coh == IF last.fn = "fall_enrollment" THEN "Cohort Name" ELSE a.cohort_column
    IN  CASE last.fn = "grs_cohort" ->
                [dfp |-> {}, dfr |-> {coh}, dfe |-> {}]
          [] last.fn = "grs_cohort_pell" ->
                [dfp |-> {aid, a.id_column}, dfr |-> {coh, a.id_column}, dfe |-> {}]
          [] last.fn = "total_headcount" ->
                [dfp |-> {}, dfr |-> {}, dfe |-> FilterColumns \cup {a.id_column}]
          [] last.fn = "fall_enrollment" ->
                [dfp |-> {aid, a.id_column}, dfr |-> {coh, a.id_column},
                 dfe |-> FilterColumns \cup {a.id_column}]
          [] last.fn = "grs_cohort_grad" ->
                [dfp |-> {}, dfr |-> {coh, "Years to Graduation"}, dfe |-> {}]
          [] last.fn = "grs_cohort_pell_grad" ->
                [dfp |-> {aid, a.id_column},
                 dfr |-> {coh, "Years to Graduation", a.id_column}, dfe |-> {}]
          [] last.fn = "second_year_retention_rate" ->
                [dfp |-> {}, dfr |-> {coh, "Academic Period 2nd Fall"}, dfe |-> {}]
          [] last.fn = "second_year_retention_rate_pell" ->
                [dfp |-> {aid, a.id_column},
                 dfr |-> {coh, "Academic Period 2nd Fall", a.id_column}, dfe |-> {}]

ReadsAbsentColumn ==
    \/ ColumnsRead.dfp \ dfp.columns # {}
    \/ ColumnsRead.dfr \ dfr.columns # {}
    \/ ColumnsRead.dfe \ dfe.columns # {}

(* C8 as stated: whenever a column a metric function reads is absent      *)
(* (an overridden aid_year_column or cohort_column included), the call    *)
(* fails with the ValueError of validation, before any filtering.         *)
C8_ValidatedBeforeRead ==
    (last.fn \in MetricFns /\ ReadsAbsentColumn)
        => (last.out.kind = "ValueError" /\ last.out.done = {})

-----------------------------------------------------------------------------
(* C9: no metric function and no extract builder changes a table passed   *)
(* to it: every step leaves dfp, dfr and dfe as they were.                *)
C9_TablesUnchanged ==
    [][dfp' = dfp /\ dfr' = dfr /\ dfe' = dfe]_vars

(* a headcount that filtered rows away, the table still holding them *)
C9_Witness ==
    /\ Returned("total_headcount")
    /\ last.args.id_column = "ID"
    /\ Cardinality(Index(dfe)) = 2
    /\ Cardinality(Index(filter_enrollment_table(dfe, last.args.term).out.value)) = 1
    /\ last.out.value = 1

(* C10: total_headcount is the number of distinct non-null identifiers of *)
(* exactly the enrollment rows with Academic Period = term, Time Status = *)
(* "FT", Student Level = "UG" and Degree other than "Non Degree".         *)
C10_Headcount ==
    Returned("total_headcount") =>
        last.out.value = Cardinality(EnrolledIds(last.args.id_column, last.args.term))

(* two passing rows with one id, counted once *)
C10_Witness ==
    /\ Returned("total_headcount")
    /\ last.args.id_column = "ID"
    /\ Cardinality(Index(filter_enrollment_table(dfe, last.args.term).out.value)) = 2
    /\ \A i \in Index(dfe) : ~isna(dfe.rows[i]["ID"])
    /\ last.out.value = 1
-----------------------------------------------------------------------------
GradFns == {"grs_cohort_grad", "grs_cohort_pell_grad"}

(* a "Years to Graduation" cell that compares: a number, at most n *)
InTime(cell, n) == IsNumeric(cell) /\ int(cell) <= n

(* the graduates of the rate call in last on the tables p and r, counted  *)
(* over the rows whose "Years to Graduation" compares: rows for           *)
(* grs_cohort_grad, distinct non-null Pell ids for grs_cohort_pell_grad   *)
Graduates(p, r) ==
    LET a == last.args
        grad == {i \in Index(r) :
                    /\ r.rows[i][a.cohort_column] = construct_cohort(a.term)
                    /\ InTime(r.rows[i]["Years to Graduation"], a.years_to_grad)}
    IN  IF last.fn = "grs_cohort_grad" THEN Cardinality(grad)
        ELSE Cardinality(
                ({r.rows[i][a.id_column] : i \in grad} \ {NaN})
                \cap {p.rows[i][a.id_column] :
                        i \in {j \in Index(p) :
                                 p.rows[j][a.aid_year_column] =
                                    calc_academic_year_from_term(a.term, TRUE)}})

(* cohort rows whose "Years to Graduation" is blank or not a number, cut  *)
(* to the columns of df                                                   *)
NotComparableRows(df) ==
    {[c \in df.columns |-> u[c]] :
        u \in {CohortRow(id, name, ytg, T26) :
                  id \in {<<"1">>, <<"2">>, NaN},
                  name \in {FullTime(T24), FullTime(T25)},
                  ytg \in {NaN, <<"x">>, <<"4", "x">>}}}

(* C11: in grs_cohort_grad and grs_cohort_pell_grad a cohort row whose    *)
(* "Years to Graduation" is blank, missing or not a number is never       *)
(* counted in the numerator, whatever the threshold, still counts in the  *)
(* denominator, and never makes the call raise: the rate is the number of *)
(* graduates among the comparable rows over the denominator metric of the *)
(* whole table, and adding such a row leaves the numerator as it was,     *)
(* moves the denominator to the metric of the larger table and brings no  *)
(* failure the call did not already have.                                 *)
C11_NotComparable ==
    (last.fn \in GradFns /\ Denominator.kind = "ok") =>
        /\ last.out = Rate(Graduates(dfp, dfr), Denominator.value)
        /\ \A u \in NotComparableRows(dfr) :
              LET r2   == AddRow(dfr, u)
                  out2 == Apply(last.fn, last.args, dfp, r2, dfe)
                  den2 == IF last.fn = "grs_cohort_grad"
                              THEN Apply("grs_cohort", last.args, dfp, r2, dfe)
                          ELSE Apply("grs_cohort_pell", last.args, dfp, r2, dfe)
              IN  /\ den2.kind = "ok"
                  /\ den2.value >= Denominator.value
                  /\ out2 = Rate(Graduates(dfp, dfr), den2.value)
                  /\ Graduates(dfp, r2) = Graduates(dfp, dfr)
                  /\ out2.kind # "ok" => out2 = last.out

(* a cohort of two rows, one graduated in four years, the other with a    *)
(* "Years to Graduation" that is not a number: 0.5 at either threshold    *)
C11_Witness ==
    /\ Returned("grs_cohort_grad")
    /\ DefaultCall
    /\ Denominator.value = 2
    /\ last.out.value = 500
    /\ \E i \in Index(dfr) :
          /\ dfr.rows[i]["Cohort Name"] = FullTime(last.args.term)
          /\ dfr.rows[i]["Years to Graduation"] = <<"x">>
-----------------------------------------------------------------------------
(* the labels of the enrollment rows that pass the filter of              *)
(* total_headcount for the term                                           *)
PassingRows(term) ==
    {i \in Index(dfe) :
        /\ dfe.rows[i]["Academic Period"] = term
        /\ dfe.rows[i]["Time Status"] = <<"FT">>
        /\ dfe.rows[i]["Student Level"] = <<"UG">>
        /\ dfe.rows[i]["Degree"] # <<"Non Degree">>}

(* the k-th label of a set of labels, in index order *)
Kth(labels, k) ==
    CHOOSE i \in labels : Cardinality({j \in labels : j < i}) = k - 1

(* C12: generate_table_for_carol projects and filters and does nothing    *)
(* else: its extract has one row for each enrollment row passing the      *)
(* filter of total_headcount, in order, with that row's ID and Person     *)
(* Uid; the non-null ids of the extract are the ids total_headcount       *)
(* counts with id_column = "ID"; every extract row has the requested term *)
(* as its Academic Period.                                                *)
C12_ExtractIsFilter ==
    Returned("generate_table_for_carol") =>
        LET sheet == last.out.value.sheet
            term  == last.args.term
            pass  == PassingRows(term)
        IN  /\ Len(sheet) = Cardinality(pass)
            /\ \A k \in 1..Len(sheet) :
                  /\ sheet[k]["ID"] = dfe.rows[Kth(pass, k)]["ID"]
                  /\ sheet[k]["Person Uid"] = dfe.rows[Kth(pass, k)]["Person Uid"]
                  /\ sheet[k]["Academic Period"] = term
            /\ {sheet[k]["ID"] : k \in 1..Len(sheet)} \ {NaN} = EnrolledIds("ID", term)
            /\ total_headcount(dfe, term, "ID").out =
                  Ok(Cardinality({sheet[k]["ID"] : k \in 1..Len(sheet)} \ {NaN}))

(* an extract of two rows that repeat one id: a headcount of 1 *)
C12_Witness ==
    /\ Returned("generate_table_for_carol")
    /\ Len(last.out.value.sheet) = 2
    /\ last.out.value.sheet[1]["ID"] = last.out.value.sheet[2]["ID"]
    /\ ~isna(last.out.value.sheet[1]["ID"])
    /\ total_headcount(dfe, last.args.term, "ID").out = Ok(1)
-----------------------------------------------------------------------------
(* a call of main begins in this step *)
MainCalled == run'.clock # run.clock

(* C13: init_repo.main initializes at most once: a call of main made      *)
(* while .repo_initialized exists returns 1 having done none of the three *)
(* update steps, and while the sentinel exists no step renames the        *)
(* package directory, rewrites pyproject.toml or mkdocs.yml, or rewrites  *)
(* the sentinel.                                                          *)
C13_InitializedOnce ==
    [][fs.sentinel.exists =>
          /\ MainCalled => (/\ run'.pc = "exit"
                            /\ run'.ret = 1
                            /\ run'.done = {}
                            /\ fs' = fs)
          /\ fs'.src = fs.src
          /\ fs'.pyproject = fs.pyproject
          /\ fs'.mkdocs = fs.mkdocs
          /\ fs'.sentinel.exists => fs'.sentinel = fs.sentinel]_vars

(* main returned 1 on a call made after the call that wrote the sentinel *)
C13_Witness ==
    /\ run.pc = "exit"
    /\ run.ret = 1
    /\ fs.sentinel.exists
    /\ fs.sentinel.stamp > 0
    /\ fs.sentinel.stamp < run.clock

Renamed == TemplatePackage \notin fs.src /\ normalize_package_name(fs.name) \in fs.src

PyprojectUpdated ==
    fs.pyproject.state = "ok" /\ fs.pyproject.name = normalize_package_name(fs.name)

MkdocsUpdated == fs.mkdocs.state = "ok" /\ fs.mkdocs.site_name = fs.name

(* C14: main writes the sentinel only after update_package_name,          *)
(* update_pyproject and update_mkdocs completed, in that order: wherever  *)
(* a sentinel written by main exists, the template package directory has  *)
(* been renamed and pyproject.toml and mkdocs.yml have been updated; a    *)
(* call that wrote it completed the three steps and returned 0 or is      *)
(* about to; a call in which a step raised wrote no sentinel.             *)
C14_SentinelLast ==
    /\ (fs.sentinel.exists /\ fs.sentinel.stamp > 0)
          => (Renamed /\ PyprojectUpdated /\ MkdocsUpdated)
    /\ (fs.sentinel.exists /\ fs.sentinel.stamp = run.clock /\ run.clock > 0)
          => (/\ run.done = {"update_package_name", "update_pyproject", "update_mkdocs"}
              /\ run.exc = "none"
              /\ run.ret = 0)
    /\ run.pc = "write_text"
          => run.done = {"update_package_name", "update_pyproject", "update_mkdocs"}
    /\ "update_mkdocs" \in run.done => "update_pyproject" \in run.done
    /\ "update_pyproject" \in run.done => "update_package_name" \in run.done
    /\ run.exc # "none" => ~(fs.sentinel.exists /\ fs.sentinel.stamp = run.clock)

(* main returned 0: the sentinel of this call, over a renamed package and  *)
(* updated pyproject.toml and mkdocs.yml, in a repository that is not     *)
(* named as the template                                                  *)
C14_Witness ==
    /\ run.pc = "exit"
    /\ run.ret = 0
    /\ fs.sentinel.exists
    /\ fs.sentinel.stamp = run.clock
    /\ Renamed /\ PyprojectUpdated /\ MkdocsUpdated
    /\ fs.name # TemplateName
-----------------------------------------------------------------------------
(* C15: whatever the term and the three tables, the two Pell variants of  *)
(* fall_enrollment split the enrolled Pell ids: fall_enrollment(pell,     *)
(* not transfer) + fall_enrollment(pell, transfer) = |P n E|, and         *)
(* fall_enrollment(pell, not transfer) is never negative and is the       *)
(* number of ids of P n E outside the transfer cohort T.                  *)
C15_PellPartition ==
    Returned("fall_enrollment") =>
        LET id == last.args.id_column
            t  == last.args.term
            E  == EnrolledIds(id, t)
            P  == PellIds(id, calc_academic_year_from_term(t, TRUE))
            T  == TransferIds(id, t)
        IN  /\ FE(id, t, TRUE, FALSE) + FE(id, t, TRUE, TRUE) = Cardinality(P \cap E)
            /\ FE(id, t, TRUE, FALSE) >= 0
            /\ FE(id, t, TRUE, FALSE) = Cardinality((P \cap E) \ T)

(* two enrolled Pell ids, one of them an incoming transfer, the other in  *)
(* no row of the cohort table: 1 + 1 = 2                                  *)
C15_Witness ==
    /\ Returned("fall_enrollment")
    /\ last.args.pell /\ ~last.args.transfer
    /\ last.out.value = 1
    /\ FE(last.args.id_column, last.args.term, TRUE, TRUE) = 1
    /\ Cardinality(EnrolledIds(last.args.id_column, last.args.term)
                   \cap PellIds(last.args.id_column,
                           calc_academic_year_from_term(last.args.term, TRUE))) = 2
    /\ Cardinality(Index(dfr)) = 1
====
